---------------------------- MODULE Spec2Model ----------------------------
(***************************************************************************)
(* Model of polynomial_generator: instance_generator.py and chooser.py.   *)
(*                                                                         *)
(* Vectors and matrices are sequences; the code's 0-based index k is the  *)
(* model's index k+1.  A Dirichlet proportion vector is modelled the way  *)
(* numpy computes it: k positive gamma variates g, proportion i being     *)
(* g[i] / sum(g); np.round is round-half-to-even on that exact rational.  *)
(***************************************************************************)
EXTENDS Integers, Sequences, FiniteSets, Bags, TLC

(***************************************************************************)
(* Bounds of the model.                                                    *)
(***************************************************************************)
MaxM == 4          \* rows handed to _sample_row_totals on its own
MaxExtra == 3      \* target_sum - m handed to _sample_row_totals on its own
MaxGamma == 6      \* gamma variates of a generator range over 1..MaxGamma
MaxUnitGamma == 4  \* gamma variates handed to a helper on its own
MaxTotal == 4      \* total_degree handed to _distribute_exponents on its own
MaxVars == 4       \* n_variables handed to _distribute_exponents on its own

(***************************************************************************)
(* Arithmetic helpers.                                                     *)
(***************************************************************************)
Abs(x) == IF x < 0 THEN -x ELSE x

Min2(a, b) == IF a <= b THEN a ELSE b

Max2(a, b) == IF a >= b THEN a ELSE b

RECURSIVE SumTo(_, _)
SumTo(s, k) == IF k = 0 THEN 0 ELSE s[k] + SumTo(s, k - 1)

\* sum(s)
SeqSum(s) == SumTo(s, Len(s))

\* np.round(num / den) for den > 0: nearest integer, ties to the even one.
RoundHalfEven(num, den) ==
    LET q == num \div den
        r == num - q * den
    IN  IF 2 * r < den THEN q
        ELSE IF 2 * r > den THEN q + 1
        ELSE IF q % 2 = 0 THEN q ELSE q + 1

\* np.round(proportions * scale).astype(int), proportions = gam / sum(gam)
RoundProportions(gam, scale) ==
    [k \in 1..Len(gam) |-> RoundHalfEven(gam[k] * scale, SeqSum(gam))]

(***************************************************************************)
(* _sample_row_totals(m, target_sum).  gam are the gamma variates behind  *)
(* np.random.dirichlet, idx the indices np.random.choice returns.          *)
(***************************************************************************)
ExtrasRounded(m_, target_sum, gam) == RoundProportions(gam, target_sum - m_)

RowDiff(m_, target_sum, gam) ==
    (target_sum - m_) - SeqSum(ExtrasRounded(m_, target_sum, gam))

\* lines 141-142, from the k-th index on
RECURSIVE AdjustExtras(_, _, _, _)
AdjustExtras(extras, idx, k, diff) ==
    IF k > Len(idx) THEN extras
    ELSE AdjustExtras(
            [extras EXCEPT ![idx[k]] = @ + (IF diff > 0 THEN 1 ELSE -1)],
            idx, k + 1, diff)

\* _sample_row_totals with `target_sum <= m` at line 118
SampleRowTotalsOffByOne(m_, target_sum, gam, idx) ==
    IF target_sum <= m_
    THEN [raised |-> TRUE, value |-> << >>, draws |-> 0]
    ELSE LET extras == ExtrasRounded(m_, target_sum, gam)
             diff == RowDiff(m_, target_sum, gam)
             fixed == IF diff # 0 THEN AdjustExtras(extras, idx, 1, diff) ELSE extras
         IN  [raised |-> FALSE,
              value |-> [k \in 1..m_ |-> 1 + fixed[k]],
              draws |-> IF diff # 0 THEN 2 ELSE 1]

SampleRowTotals(m_, target_sum, gam, idx) ==
    IF target_sum < m_
    THEN [raised |-> TRUE, value |-> << >>, draws |-> 0]
    ELSE IF target_sum - m_ = 0
    THEN [raised |-> FALSE, value |-> [k \in 1..m_ |-> 1], draws |-> 0]
    ELSE LET extras == ExtrasRounded(m_, target_sum, gam)
             diff == RowDiff(m_, target_sum, gam)
             fixed == IF diff # 0 THEN AdjustExtras(extras, idx, 1, diff) ELSE extras
         IN  [raised |-> FALSE,
              value |-> [k \in 1..m_ |-> 1 + fixed[k]],
              draws |-> IF diff # 0 THEN 2 ELSE 1]

(***************************************************************************)
(* _distribute_exponents(total_degree, n_variables).  gam are the gamma    *)
(* variates behind np.random.dirichlet, idx the indices np.random.choice   *)
(* returns, fb the ranks np.random.choice(pos_indices) picks, in order, each   *)
(* time an index points at an entry that is not positive.                  *)
(***************************************************************************)
\* np.where(exponents > 0)[0], ascending
RECURSIVE PositiveFrom(_, _)
PositiveFrom(v, k) ==
    IF k > Len(v) THEN << >>
    ELSE IF v[k] > 0 THEN <<k>> \o PositiveFrom(v, k + 1)
    ELSE PositiveFrom(v, k + 1)

PosIndices(v) == PositiveFrom(v, 1)

ExponentsRounded(total_degree, gam) == RoundProportions(gam, total_degree)

ExpDiff(total_degree, gam) ==
    total_degree - SeqSum(ExponentsRounded(total_degree, gam))

\* the correction loop without lines 180-186: the entry is taken from
\* whether it is positive or not
AdjustOneUnguarded(st, at, fb, diff) ==
    [v |-> [st.v EXCEPT ![at] = @ + (IF diff > 0 THEN 1 ELSE -1)], used |-> st.used]

\* one pass of the correction loop; used counts the fallback picks drawn
AdjustOne(st, at, fb, diff) ==
    IF diff > 0 THEN [v |-> [st.v EXCEPT ![at] = @ + 1], used |-> st.used]
    ELSE IF st.v[at] > 0 THEN [v |-> [st.v EXCEPT ![at] = @ - 1], used |-> st.used]
    ELSE LET pos == PosIndices(st.v)
         IN  IF Len(pos) > 0
             THEN [v |-> [st.v EXCEPT
                            ![pos[((fb[st.used + 1] - 1) % Len(pos)) + 1]] = @ - 1],
                   used |-> st.used + 1]
             ELSE st

\* lines 177-186, from the k-th index on
RECURSIVE AdjustExponents(_, _, _, _, _)
AdjustExponents(st, idx, k, fb, diff) ==
    IF k > Len(idx) THEN st
    ELSE AdjustExponents(AdjustOne(st, idx[k], fb, diff), idx, k + 1, fb, diff)

\* the function's run: v the vector returned, used the fallback picks drawn
DistributeRun(total_degree, n_variables, gam, idx, fb) ==
    IF total_degree = 0 THEN [v |-> [k \in 1..n_variables |-> 0], used |-> 0]
    ELSE LET exponents == ExponentsRounded(total_degree, gam)
             diff == ExpDiff(total_degree, gam)
         IN  IF diff # 0
             THEN AdjustExponents([v |-> exponents, used |-> 0], idx, 1, fb, diff)
             ELSE [v |-> exponents, used |-> 0]

DistributeExponents(total_degree, n_variables, gam, idx, fb) ==
    DistributeRun(total_degree, n_variables, gam, idx, fb).v

(***************************************************************************)
(* _calculate_baseline(exponent_matrix): sum over rows of max(0, E - 1).   *)
(***************************************************************************)
RowDegrees(mat) == [r \in 1..Len(mat) |-> SeqSum(mat[r])]

\* the sum of line 204 without max(0, ...)
RECURSIVE BaselineToUnclamped(_, _)
BaselineToUnclamped(degs, k) ==
    IF k = 0 THEN 0 ELSE (degs[k] - 1) + BaselineToUnclamped(degs, k - 1)

RECURSIVE BaselineTo(_, _)
BaselineTo(degs, k) ==
    IF k = 0 THEN 0 ELSE Max2(0, degs[k] - 1) + BaselineTo(degs, k - 1)

CalculateBaseline(mat) == BaselineTo(RowDegrees(mat), Len(mat))

(***************************************************************************)
(* _enforce_matrix_constraints(exponent_matrix).  The working state of the *)
(* function is the record [matrix, seen, col_sums]; seen is the Counter of *)
(* row patterns, a function from the patterns present to their counts.     *)
(***************************************************************************)
MaxAttempts == 100

\* _move_unit without `row[p] -= 1`
MoveUnitNoDebit(row, p, q) ==
    IF p = q THEN row
    ELSE IF row[p] <= 0 THEN row
    ELSE [row EXCEPT ![q] = @ + 1]

\* _move_unit(row, p, q)
MoveUnit(row, p, q) ==
    IF p = q THEN row
    ELSE IF row[p] <= 0 THEN row
    ELSE [row EXCEPT ![p] = @ - 1, ![q] = @ + 1]

\* Counter(tuple(row.tolist()) for row in matrix)
CounterOf(mat) ==
    [key \in {mat[r] : r \in 1..Len(mat)} |->
        Cardinality({r \in 1..Len(mat) : mat[r] = key})]

\* seen[key], 0 for a pattern the Counter does not hold
Count(seen, key) == IF key \in DOMAIN seen THEN seen[key] ELSE 0

\* seen[key] -= 1; if seen[key] == 0: del seen[key]
SeenDec(seen, key) ==
    LET left == Count(seen, key) - 1
        dom == IF left = 0 THEN DOMAIN seen \ {key} ELSE DOMAIN seen \cup {key}
    IN  [k \in dom |-> IF k = key THEN left ELSE seen[k]]

\* seen[key] += 1
SeenInc(seen, key) ==
    [k \in DOMAIN seen \cup {key} |-> IF k = key THEN Count(seen, key) + 1 ELSE seen[k]]

RECURSIVE ColTotal(_, _, _)
ColTotal(mat, c, r) ==
    IF r = 0 THEN 0 ELSE mat[r][c] + ColTotal(mat, c, r - 1)

\* matrix.sum(axis=0)
ColSums(mat, n_) == [c \in 1..n_ |-> ColTotal(mat, c, Len(mat))]

\* np.where(col_sums == 0)[0], ascending
RECURSIVE ZeroFrom(_, _)
ZeroFrom(sums, c) ==
    IF c > Len(sums) THEN << >>
    ELSE IF sums[c] = 0 THEN <<c>> \o ZeroFrom(sums, c + 1)
    ELSE ZeroFrom(sums, c + 1)

ZeroCols(sums) == ZeroFrom(sums, 1)

\* the columns other than j, ascending (j = 0: every column)
RECURSIVE ColsFrom(_, _, _)
ColsFrom(n_, j, c) ==
    IF c > n_ THEN << >>
    ELSE IF c = j THEN ColsFrom(n_, j, c + 1)
    ELSE <<c>> \o ColsFrom(n_, j, c + 1)

ColsExcept(n_, j) == ColsFrom(n_, j, 1)

\* first index of the least entry among the indices of cands (np.argmin, min)
RECURSIVE LeastOf(_, _)
LeastOf(sums, cands) ==
    IF Len(cands) = 1 THEN cands[1]
    ELSE LET rest == LeastOf(sums, Tail(cands))
         IN  IF sums[Head(cands)] <= sums[rest] THEN Head(cands) ELSE rest

ArgMin(sums) == LeastOf(sums, ColsExcept(Len(sums), 0))

\* [p for p in np.where(row > 0)[0].tolist() if p != q]
Donors(row, q) == SelectSeq(PosIndices(row), LAMBDA p : p # q)

\* the bookkeeping of an accepted transfer p -> q that turns row i into cand
ApplyMove(E, i, cand, p, q) ==
    [matrix |-> [E.matrix EXCEPT ![i] = cand],
     seen |-> SeenInc(SeenDec(E.seen, E.matrix[i]), cand),
     col_sums |-> [E.col_sums EXCEPT ![p] = @ - 1, ![q] = @ + 1]]

NoMove == [found |-> FALSE, p |-> 0, q |-> 0]

\* lines 253-285: the bounded search; the target column cycles over the
\* zero columns, else it is the least-covered column
AttemptTarget(sums, attempts) ==
    LET zero_cols == ZeroCols(sums)
    IN  IF Len(zero_cols) > 0 THEN zero_cols[(attempts % Len(zero_cols)) + 1]
        ELSE ArgMin(sums)

\* nothing changes between two failed attempts, so attempt a proposes the
\* move below whatever came before it; the loop ends at the first attempt
\* that has no donor (break) or proposes an absent pattern (accepted)
AttemptEnds(E, row, a) ==
    LET q == AttemptTarget(E.col_sums, a)
        donors == Donors(row, q)
    IN  Len(donors) = 0 \/ Count(E.seen, MoveUnit(row, donors[1], q)) = 0

BoundedSearch(E, row) ==
    LET ends == {a \in 0..(MaxAttempts - 1) : AttemptEnds(E, row, a)}
    IN  IF ends = {} THEN NoMove
        ELSE LET a == CHOOSE x \in ends : \A y \in ends : x <= y
                 q == AttemptTarget(E.col_sums, a)
                 donors == Donors(row, q)
             IN  IF Len(donors) = 0 THEN NoMove
                 ELSE [found |-> TRUE, p |-> donors[1], q |-> q]

\* the loop of line 253 with `attempts <= 100`
LoopAttemptsOneMore(E, row) ==
    LET ends == {a \in 0..MaxAttempts : AttemptEnds(E, row, a)}
    IN  IF ends = {} THEN MaxAttempts + 1
        ELSE CHOOSE x \in ends : \A y \in ends : x <= y

\* lines 251-285: the value of `attempts` when the loop is left: the attempt
\* that ended it, or the ceiling when every attempt failed
LoopAttempts(E, row) ==
    LET ends == {a \in 0..(MaxAttempts - 1) : AttemptEnds(E, row, a)}
    IN  IF ends = {} THEN MaxAttempts
        ELSE CHOOSE x \in ends : \A y \in ends : x <= y

\* lines 288-312: first (p, q) in row-major order giving an absent pattern
\* the scan of lines 290-312 with `for q in range(p + 1, n)`
RECURSIVE ExhaustiveSearchForward(_, _, _, _)
ExhaustiveSearchForward(E, row, p, q) ==
    IF p > Len(row) THEN NoMove
    ELSE IF row[p] = 0 \/ q > Len(row) THEN ExhaustiveSearchForward(E, row, p + 1, 1)
    ELSE IF q > p /\ Count(E.seen, MoveUnit(row, p, q)) = 0
    THEN [found |-> TRUE, p |-> p, q |-> q]
    ELSE ExhaustiveSearchForward(E, row, p, q + 1)

RECURSIVE ExhaustiveSearch(_, _, _, _)
ExhaustiveSearch(E, row, p, q) ==
    IF p > Len(row) THEN NoMove
    ELSE IF row[p] = 0 \/ q > Len(row) THEN ExhaustiveSearch(E, row, p + 1, 1)
    ELSE IF q # p /\ Count(E.seen, MoveUnit(row, p, q)) = 0
    THEN [found |-> TRUE, p |-> p, q |-> q]
    ELSE ExhaustiveSearch(E, row, p, q + 1)

\* lines 245-313: one iteration of the duplicate-breaking loop
BreakDuplicateRow(E, i) ==
    LET row == E.matrix[i]
    IN  IF Count(E.seen, row) <= 1 THEN E
        ELSE LET first == BoundedSearch(E, row)
                 mv == IF first.found THEN first ELSE ExhaustiveSearch(E, row, 1, 1)
             IN  IF mv.found
                 THEN ApplyMove(E, i, MoveUnit(row, mv.p, mv.q), mv.p, mv.q)
                 ELSE E

RECURSIVE BreakDuplicatesFrom(_, _)
BreakDuplicatesFrom(E, i) ==
    IF i > Len(E.matrix) THEN E
    ELSE BreakDuplicatesFrom(BreakDuplicateRow(E, i), i + 1)

\* donors.sort(key=lambda p: row[p], reverse=True): stable, largest first
RECURSIVE InsertDonor(_, _, _)
InsertDonor(row, sorted, p) ==
    IF Len(sorted) = 0 THEN <<p>>
    ELSE IF row[Head(sorted)] >= row[p]
    THEN <<Head(sorted)>> \o InsertDonor(row, Tail(sorted), p)
    ELSE <<p>> \o sorted

RECURSIVE SortDonors(_, _, _)
SortDonors(row, donors, sorted) ==
    IF Len(donors) = 0 THEN sorted
    ELSE SortDonors(row, Tail(donors), InsertDonor(row, sorted, Head(donors)))

\* cand = row.copy(); cand[p] -= 1; cand[j] += 1
Shift(row, p, j) == [row EXCEPT ![p] = @ - 1, ![j] = @ + 1]

\* lines 330-345: first donor of the row whose transfer into j is a new pattern
RECURSIVE FirstFreshDonor(_, _, _, _)
FirstFreshDonor(E, row, donors, j) ==
    IF Len(donors) = 0 THEN 0
    ELSE IF Count(E.seen, Shift(row, Head(donors), j)) = 0 THEN Head(donors)
    ELSE FirstFreshDonor(E, row, Tail(donors), j)

\* lines 325-347: first row, in order, that has such a donor
RECURSIVE FreshFix(_, _, _)
FreshFix(E, j, i) ==
    IF i > Len(E.matrix) THEN NoMove
    ELSE LET row == E.matrix[i]
             p == FirstFreshDonor(E, row, SortDonors(row, Donors(row, j), << >>), j)
         IN  IF p # 0 THEN [found |-> TRUE, p |-> p, q |-> i]
             ELSE FreshFix(E, j, i + 1)

\* lines 350-355: first row with any donor
RECURSIVE FirstDonorRow(_, _, _)
FirstDonorRow(E, j, i) ==
    IF i > Len(E.matrix) THEN 0
    ELSE IF Len(Donors(E.matrix[i], j)) > 0 THEN i
    ELSE FirstDonorRow(E, j, i + 1)

\* lines 368-387: the secondary move after a forced transfer made row i a duplicate
SecondaryMove(E, i, j) ==
    LET row == E.matrix[i]
        donors2 == Donors(row, j)
        q2_candidates == ColsExcept(Len(row), j)
    IN  IF Count(E.seen, row) > 1 /\ Len(donors2) > 0 /\ Len(q2_candidates) > 0
        THEN LET q2 == LeastOf(E.col_sums, q2_candidates)
                 p2 == donors2[1]
                 cand2 == MoveUnit(row, p2, q2)
             IN  IF Count(E.seen, cand2) = 0 THEN ApplyMove(E, i, cand2, p2, q2)
                 ELSE E
        ELSE E

\* lines 349-388: the transfer made although it duplicates a row
ForcedFix(E, j) ==
    LET i == FirstDonorRow(E, j, 1)
    IN  IF i = 0 THEN E
        ELSE LET p == Donors(E.matrix[i], j)[1]
             IN  SecondaryMove(ApplyMove(E, i, Shift(E.matrix[i], p, j), p, j), i, j)

\* lines 325-345 without the `if fixed: break` of lines 346-347: every row
\* that has a fresh donor gives a unit
RECURSIVE FreshFixEveryRow(_, _, _)
FreshFixEveryRow(E, j, i) ==
    IF i > Len(E.matrix) THEN E
    ELSE LET row == E.matrix[i]
             p == FirstFreshDonor(E, row, SortDonors(row, Donors(row, j), << >>), j)
         IN  FreshFixEveryRow(IF p # 0 THEN ApplyMove(E, i, Shift(row, p, j), p, j)
                                       ELSE E, j, i + 1)

FixZeroColumnEveryRow(E, j) ==
    IF FreshFix(E, j, 1).found THEN FreshFixEveryRow(E, j, 1)
    ELSE ForcedFix(E, j)

\* lines 322-388: one iteration of the zero-column loop
FixZeroColumn(E, j) ==
    LET fresh == FreshFix(E, j, 1)
    IN  IF fresh.found
        THEN ApplyMove(E, fresh.q, Shift(E.matrix[fresh.q], fresh.p, j), fresh.p, j)
        ELSE ForcedFix(E, j)

RECURSIVE FixZeroColumns(_, _)
FixZeroColumns(E, zero_columns) ==
    IF Len(zero_columns) = 0 THEN E
    ELSE FixZeroColumns(FixZeroColumn(E, Head(zero_columns)), Tail(zero_columns))

\* lines 238-243: the bookkeeping before the duplicate-breaking loop
EnforceStart(mat, n_) ==
    [matrix |-> mat, seen |-> CounterOf(mat), col_sums |-> ColSums(mat, n_)]

\* lines 316-320: the bookkeeping recomputed before the zero-column loop
ZeroStart(E, n_) ==
    LET sums == ColSums(E.matrix, n_)
    IN  [matrix |-> E.matrix,
         seen |-> IF Len(ZeroCols(sums)) > 0 THEN CounterOf(E.matrix) ELSE E.seen,
         col_sums |-> sums]

\* the whole function, for an m x n_ matrix
EnforceMatrixConstraints(mat, n_) ==
    IF Len(mat) * n_ = 0 THEN mat
    ELSE LET E1 == ZeroStart(BreakDuplicatesFrom(EnforceStart(mat, n_), 1), n_)
         IN  FixZeroColumns(E1, ZeroCols(E1.col_sums)).matrix

(***************************************************************************)
(* The two process-wide random generators, `random` and `np.random`.  Each *)
(* is a deterministic generator: a state, a step, an output per step.  The *)
(* library's Mersenne Twister is stood in for by a 16-bit linear           *)
(* congruential generator; seeding sets the state from the seed alone,     *)
(* and the two libraries derive different states from one seed.            *)
(***************************************************************************)
RngMod == 65536
RngMul == 25173
RngInc == 13849
NpSalt == 40503

RngNext(x) == (x * RngMul + RngInc) % RngMod

RngOut(x) == x \div 16

\* random.seed(s)
PySeeded(s) == (s * RngMul + RngInc) % RngMod

\* np.random.seed(s)
NpSeeded(s) == ((s + NpSalt) * RngMul + RngInc) % RngMod

RECURSIVE RngSkip(_, _)
RngSkip(x, k) == IF k = 0 THEN x ELSE RngSkip(RngNext(x), k - 1)

\* the next k outputs of a generator in state x
Draws(x, k) == [j \in 1..k |-> RngOut(RngSkip(x, j))]

\* random.randint(a, b) from one output
RandInt(raw, a, b) == a + (raw % (b - a + 1))

\* the gamma variates of np.random.dirichlet from k outputs
Gammas(raws) == [j \in 1..Len(raws) |-> 1 + (raws[j] % MaxGamma)]

\* np.random.choice(k, size) from size outputs, as 1-based indices
Choices(raws, k) == [j \in 1..Len(raws) |-> 1 + (raws[j] % k)]

(***************************************************************************)
(* choose_m_n(delta, seed) for delta > 0, run on the `random` generator in *)
(* state py.  seed is << >> for None and <<s>> for the integer s.          *)
(***************************************************************************)
\* int(math.sqrt(delta))
ISqrt(d) == CHOOSE k \in 0..d : k * k <= d /\ (k + 1) * (k + 1) > d

\* max_m without the cap at delta
MaxMOfUncapped(d) == ISqrt(d) + 5

MaxMOf(d) == Min2(d, ISqrt(d) + 5)

MaxNOf(d, m_) == Max2(Min2(d, Min2(m_ + 3, 10)), 2)

\* choose_m_n without chooser.py lines 38-39
ChooseMNUnseeded(d, sd, py) ==
    LET m_ == RandInt(Draws(py, 1)[1], 1, MaxMOf(d))
        n_ == RandInt(Draws(py, 2)[2], 2, MaxNOf(d, m_))
    IN  [m |-> m_, n |-> n_, py |-> RngSkip(py, 2)]

ChooseMN(d, sd, py) ==
    LET py0 == IF Len(sd) > 0 THEN PySeeded(sd[1]) ELSE py
        m_ == RandInt(Draws(py0, 1)[1], 1, MaxMOf(d))
        n_ == RandInt(Draws(py0, 2)[2], 2, MaxNOf(d, m_))
    IN  [m |-> m_, n |-> n_, py |-> RngSkip(py0, 2)]

(***************************************************************************)
(* The parts of generate_random_instance that draw from np.random, run on  *)
(* the generator in state np.                                              *)
(***************************************************************************)
\* line 61: _sample_row_totals(m, delta + m)
RowTotalsRun(m_, target_sum, np) ==
    LET gam == Gammas(Draws(np, m_))
        cnt == IF target_sum > m_ THEN Abs(RowDiff(m_, target_sum, gam)) ELSE 0
        idx == Choices(Draws(RngSkip(np, m_), cnt), m_)
        res == SampleRowTotals(m_, target_sum, gam, idx)
    IN  [raised |-> res.raised, value |-> res.value,
         np |-> IF res.draws = 0 THEN np ELSE RngSkip(np, m_ + cnt)]

\* line 66: _distribute_exponents(total_degree, n)
MonomialRun(total_degree, n_, np) ==
    LET gam == Gammas(Draws(np, n_))
        cnt == IF total_degree # 0 THEN Abs(ExpDiff(total_degree, gam)) ELSE 0
        idx == Choices(Draws(RngSkip(np, n_), cnt), n_)
        fb == Choices(Draws(RngSkip(np, n_ + cnt), cnt), n_)
        run == DistributeRun(total_degree, n_, gam, idx, fb)
    IN  [v |-> run.v,
         np |-> IF total_degree = 0 THEN np ELSE RngSkip(np, n_ + cnt + run.used)]

\* line 78: random.uniform(lo, hi) from one output, as a multiple of
\* 1 / CoefSteps: lo + (hi - lo) * u / CoefSteps, u in 0..CoefSteps
CoefSteps == 4

Uniform(raw, lo, hi) == lo * CoefSteps + (hi - lo) * (raw % (CoefSteps + 1))

(***************************************************************************)
(* State.                                                                  *)
(*   pc, calls             position in the running call; calls started     *)
(*   delta, coeff_range, seed   arguments of generate_random_instance      *)
(*   m, n, row_totals, exponent_matrix, coefficients   its locals          *)
(*   result                what the call returned, or its error            *)
(*   pyRng, npRng          state of random and of np.random (process-wide) *)
(*   history               the calls that returned, in order: arguments,   *)
(*                         instance returned                               *)
(*   rng_use               the running call's use of the two generators:   *)
(*                         their states when it was entered, and its seed  *)
(*                         and draw events in order                        *)
(*   args, ret             a helper called on its own: inputs, result      *)
(*   work, todo, row_i     _enforce_matrix_constraints run step by step    *)
(*   attempts              its local `attempts` after the row last handled *)
(***************************************************************************)
VARIABLES pc, calls, delta, coeff_range, seed, m, n, row_totals,
          exponent_matrix, coefficients, result, pyRng, npRng, history,
          rng_use, args, ret, work, todo, row_i, attempts

vars == <<pc, calls, delta, coeff_range, seed, m, n, row_totals,
          exponent_matrix, coefficients, result, pyRng, npRng, history,
          rng_use, args, ret, work, todo, row_i, attempts>>

callVars == <<delta, coeff_range, seed>>
localVars == <<m, n, row_totals, exponent_matrix, coefficients>>
unitVars == <<args, ret, work, todo, row_i, attempts>>

MaxDelta == 4      \* deltas -1..MaxDelta are passed to a single call
MaxEntropy == 1    \* unseeded generators start in a state of 0..MaxEntropy
MaxCalls == 3      \* calls made one after the other in SpecSeq

None == << >>
NoResult == [kind |-> "none"]

Deltas == (0 - 1)..MaxDelta
Seeds == {None, <<0>>, <<42>>, <<573>>}
CoeffRanges == {<<0 - 10, 10>>, <<1, 5>>, <<0, 0>>, <<0, 5>>, <<0 - 5, 0>>, <<0 - 3, 0 - 1>>}

SeqDeltas == {1, 3}
SeqSeeds == {None, <<0>>, <<1>>}
SeqRanges == {<<0 - 10, 10>>, <<0, 5>>}

\* the generators have not been used by a call
NoUse == [py |-> 0, np |-> 0, events |-> << >>]

\* one more event of a call; draws that follow one another on the same
\* generator are recorded once
Logged(use, e) ==
    IF Len(use.events) > 0 /\ use.events[Len(use.events)] = e
          /\ e \in {"draw_py", "draw_np"}
    THEN use
    ELSE [use EXCEPT !.events = Append(@, e)]

\* no call of generate_random_instance has been made
NoCall ==
    /\ calls = 0
    /\ rng_use = NoUse
    /\ delta = 0 /\ coeff_range = <<0, 0>> /\ seed = None
    /\ m = 0 /\ n = 0 /\ row_totals = << >>
    /\ exponent_matrix = << >> /\ coefficients = << >>
    /\ result = NoResult
    /\ history = << >>

\* no helper is being run step by step
NoWork == work = << >> /\ todo = << >> /\ row_i = 0 /\ attempts = 0

Init ==
    /\ NoCall /\ NoWork
    /\ args = << >> /\ ret = NoResult
    /\ pc = "idle"
    /\ pyRng \in 0..MaxEntropy
    /\ npRng \in 0..MaxEntropy

(***************************************************************************)
(* generate_random_instance(delta, coeff_range, seed), lines 46-99.        *)
(***************************************************************************)
\* the argument checks without lines 49-50
EnterNoRangeCheck(d, r, sd) ==
    /\ calls' = calls + 1
    /\ delta' = d /\ coeff_range' = r /\ seed' = sd
    /\ m' = 0 /\ n' = 0 /\ row_totals' = << >>
    /\ exponent_matrix' = << >> /\ coefficients' = << >>
    /\ IF d <= 0
       THEN pc' = "error" /\ result' = [kind |-> "ValueError"]
       ELSE pc' = "seed" /\ result' = NoResult
    /\ rng_use' = [py |-> pyRng, np |-> npRng, events |-> << >>]
    /\ UNCHANGED <<pyRng, npRng, history, unitVars>>

\* lines 46-50: the argument checks
Enter(d, r, sd) ==
    /\ calls' = calls + 1
    /\ delta' = d /\ coeff_range' = r /\ seed' = sd
    /\ m' = 0 /\ n' = 0 /\ row_totals' = << >>
    /\ exponent_matrix' = << >> /\ coefficients' = << >>
    /\ IF d <= 0 \/ (r[1] >= 0 /\ r[2] <= 0)
       THEN pc' = "error" /\ result' = [kind |-> "ValueError"]
       ELSE pc' = "seed" /\ result' = NoResult
    /\ rng_use' = [py |-> pyRng, np |-> npRng, events |-> << >>]
    /\ UNCHANGED <<pyRng, npRng, history, unitVars>>

Call ==
    /\ pc = "idle"
    /\ \E d \in Deltas, r \in CoeffRanges, sd \in Seeds : Enter(d, r, sd)

\* lines 53-55 without `np.random.seed(seed)`
SeedGeneratorsPyOnly ==
    /\ pc = "seed"
    /\ pc' = "choose"
    /\ IF seed # None
       THEN /\ pyRng' = PySeeded(seed[1]) /\ npRng' = npRng
            /\ rng_use' = Logged(rng_use, "seed_py")
       ELSE UNCHANGED <<pyRng, npRng, rng_use>>
    /\ UNCHANGED <<calls, callVars, localVars, result, history, unitVars>>

\* lines 53-55
SeedGenerators ==
    /\ pc = "seed"
    /\ pc' = "choose"
    /\ IF seed # None
       THEN /\ pyRng' = PySeeded(seed[1]) /\ npRng' = NpSeeded(seed[1])
            /\ rng_use' = Logged(Logged(rng_use, "seed_py"), "seed_np")
       ELSE UNCHANGED <<pyRng, npRng, rng_use>>
    /\ UNCHANGED <<calls, callVars, localVars, result, history, unitVars>>

\* line 58
ChooseSizes ==
    /\ pc = "choose"
    /\ LET c == ChooseMN(delta, seed, pyRng)
       IN  m' = c.m /\ n' = c.n /\ pyRng' = c.py
    /\ rng_use' = Logged(IF seed # None THEN Logged(rng_use, "seed_py")
                                        ELSE rng_use, "draw_py")
    /\ pc' = "rows"
    /\ UNCHANGED <<calls, callVars, row_totals, exponent_matrix, coefficients,
                   result, npRng, history, unitVars>>

\* lines 61-64
SampleRows ==
    /\ pc = "rows"
    /\ LET r == RowTotalsRun(m, delta + m, npRng)
       IN  /\ npRng' = r.np
           /\ row_totals' = r.value
           /\ IF r.raised
              THEN pc' = "error" /\ result' = [kind |-> "ValueError"]
              ELSE pc' = "monomials" /\ result' = result
    /\ rng_use' = IF delta + m > m THEN Logged(rng_use, "draw_np") ELSE rng_use
    /\ exponent_matrix' = [i \in 1..m |-> [j \in 1..n |-> 0]]
    /\ row_i' = 1
    /\ UNCHANGED <<calls, callVars, m, n, coefficients, pyRng, history,
                   args, ret, work, todo, attempts>>

\* lines 65-66: one iteration
FormMonomial ==
    /\ pc = "monomials"
    /\ row_i <= m
    /\ LET r == MonomialRun(row_totals[row_i], n, npRng)
       IN  /\ exponent_matrix' = [exponent_matrix EXCEPT ![row_i] = r.v]
           /\ npRng' = r.np
    /\ rng_use' = IF row_totals[row_i] # 0 THEN Logged(rng_use, "draw_np")
                   ELSE rng_use
    /\ row_i' = row_i + 1
    /\ UNCHANGED <<pc, calls, callVars, m, n, row_totals, coefficients, result,
                   pyRng, history, args, ret, work, todo, attempts>>

\* line 71
Enforce ==
    /\ pc = "monomials"
    /\ row_i > m
    /\ exponent_matrix' = EnforceMatrixConstraints(exponent_matrix, n)
    /\ pc' = "coeffs"
    /\ UNCHANGED <<calls, callVars, m, n, row_totals, coefficients, result,
                   pyRng, npRng, history, rng_use, unitVars>>

\* lines 75-79 without the `while coeff == 0` loop
DrawCoefficientKeepZero ==
    /\ pc = "coeffs"
    /\ Len(coefficients) < m
    /\ coefficients' = Append(coefficients,
                              Uniform(Draws(pyRng, 1)[1], coeff_range[1], coeff_range[2]))
    /\ pyRng' = RngNext(pyRng)
    /\ rng_use' = Logged(rng_use, "draw_py")
    /\ UNCHANGED <<pc, calls, callVars, m, n, row_totals, exponent_matrix, result,
                   npRng, history, unitVars>>

\* lines 75-79: one draw of the inner loop; a zero is drawn again
DrawCoefficient ==
    /\ pc = "coeffs"
    /\ Len(coefficients) < m
    /\ LET coeff == Uniform(Draws(pyRng, 1)[1], coeff_range[1], coeff_range[2])
       IN  coefficients' = IF coeff = 0 THEN coefficients
                           ELSE Append(coefficients, coeff)
    /\ pyRng' = RngNext(pyRng)
    /\ rng_use' = Logged(rng_use, "draw_py")
    /\ UNCHANGED <<pc, calls, callVars, m, n, row_totals, exponent_matrix, result,
                   npRng, history, unitVars>>

\* the instance of lines 91-99, without the rendered polynomial
Instance ==
    [kind |-> "instance", delta |-> delta, m |-> m, n |-> n,
     matrix |-> exponent_matrix, coefficients |-> coefficients,
     baseline |-> CalculateBaseline(exponent_matrix)]

\* lines 88-99
Return ==
    /\ pc = "coeffs"
    /\ Len(coefficients) = m
    /\ result' = Instance
    /\ pc' = "done"
    /\ history' = Append(history, [seed |-> seed, coeff_range |-> coeff_range,
                                    instance |-> Instance])
    /\ UNCHANGED <<calls, callVars, localVars, pyRng, npRng, rng_use, unitVars>>

Steps ==
    \/ SeedGenerators
    \/ ChooseSizes
    \/ SampleRows
    \/ FormMonomial
    \/ Enforce
    \/ DrawCoefficient
    \/ Return

Next == Call \/ Steps

Spec == Init /\ [][Next]_vars

(***************************************************************************)
(* Calls made one after the other on the same two generators.              *)
(***************************************************************************)
CallAgain ==
    /\ pc \in {"idle", "done", "error"}
    /\ calls < MaxCalls
    /\ \E d \in SeqDeltas, r \in SeqRanges, sd \in SeqSeeds : Enter(d, r, sd)

NextSeq == CallAgain \/ Steps

SpecSeq == Init /\ [][NextSeq]_vars

(***************************************************************************)
(* _sample_row_totals called on its own, for every m, target_sum, gamma    *)
(* vector and index vector within the bounds.                              *)
(***************************************************************************)
genVars == <<calls, delta, coeff_range, seed, m, n, row_totals,
             exponent_matrix, coefficients, result, pyRng, npRng, history,
             rng_use>>

NoGenerators == pyRng = 0 /\ npRng = 0

\* the indices np.random.choice is asked for at line 140
RowChoiceCount(m_, target_sum, gam) ==
    IF target_sum > m_ THEN Abs(RowDiff(m_, target_sum, gam)) ELSE 0

InitRows ==
    /\ NoCall /\ NoWork /\ NoGenerators
    /\ pc = "call_rows"
    /\ ret = NoResult
    /\ \E m_ \in 1..MaxM, extra \in (0 - 1)..MaxExtra :
         \E gam \in [1..m_ -> 1..MaxUnitGamma] :
           \E idx \in [1..RowChoiceCount(m_, m_ + extra, gam) -> 1..m_] :
             args = [m |-> m_, target_sum |-> m_ + extra, gam |-> gam, idx |-> idx]

ApplyRows ==
    /\ pc = "call_rows"
    /\ pc' = "ret_rows"
    /\ LET r == SampleRowTotals(args.m, args.target_sum, args.gam, args.idx)
       IN  ret' = IF r.raised THEN [kind |-> "ValueError", draws |-> r.draws]
                  ELSE [kind |-> "value", value |-> r.value, draws |-> r.draws]
    /\ UNCHANGED <<genVars, args, work, todo, row_i, attempts>>

NextRows == ApplyRows

SpecRows == InitRows /\ [][NextRows]_vars

(***************************************************************************)
(* _distribute_exponents called on its own.                                *)
(***************************************************************************)
ExpChoiceCount(total_degree, gam) ==
    IF total_degree # 0 THEN Abs(ExpDiff(total_degree, gam)) ELSE 0

\* the fallback picks of line 186 happen only while entries are taken away
FallbackCount(total_degree, gam) ==
    IF total_degree # 0 /\ ExpDiff(total_degree, gam) < 0
    THEN Abs(ExpDiff(total_degree, gam)) ELSE 0

InitDist ==
    /\ NoCall /\ NoWork /\ NoGenerators
    /\ pc = "call_dist"
    /\ ret = NoResult
    /\ \E n_ \in 1..MaxVars, total \in 0..MaxTotal :
         \E gam \in [1..n_ -> 1..MaxUnitGamma] :
           \E idx \in [1..ExpChoiceCount(total, gam) -> 1..n_] :
             \E fb \in [1..FallbackCount(total, gam) -> 1..n_] :
               args = [total_degree |-> total, n_variables |-> n_,
                       gam |-> gam, idx |-> idx, fb |-> fb]

ApplyDist ==
    /\ pc = "call_dist"
    /\ pc' = "ret_dist"
    /\ LET r == DistributeRun(args.total_degree, args.n_variables,
                              args.gam, args.idx, args.fb)
       IN  ret' = [kind |-> "value", value |-> r.v, used |-> r.used]
    /\ UNCHANGED <<genVars, args, work, todo, row_i, attempts>>

NextDist == ApplyDist

SpecDist == InitDist /\ [][NextDist]_vars

(***************************************************************************)
(* _enforce_matrix_constraints called on its own and run one loop          *)
(* iteration at a time, for every matrix within the bounds.                *)
(***************************************************************************)
MaxMass == 6       \* sum of the entries of a matrix handed to the function
Shapes == (0..3) \X (0..3)    \* its shapes <<m, n>>

RowsOf(n_, deg) == {v \in [1..n_ -> 0..deg] : SeqSum(v) <= deg}

\* the m_ x n_ matrices of non-negative integers whose entries sum to at most mass
RECURSIVE MatricesOf(_, _, _)
MatricesOf(m_, n_, mass) ==
    IF m_ = 0 THEN {<< >>}
    ELSE UNION {{<<r>> \o rest : rest \in MatricesOf(m_ - 1, n_, mass - SeqSum(r))} :
                r \in RowsOf(n_, mass)}

InitEnforce ==
    /\ NoCall /\ NoWork /\ NoGenerators
    /\ pc = "call_enforce"
    /\ ret = NoResult
    /\ \E shape \in Shapes :
         \E mat \in MatricesOf(shape[1], shape[2], MaxMass) :
           args = [matrix |-> mat, n |-> shape[2]]

\* lines 223-243
EnforceBegin ==
    /\ pc = "call_enforce"
    /\ IF Len(args.matrix) * args.n = 0
       THEN /\ pc' = "ret_enforce"
            /\ ret' = [kind |-> "value", value |-> args.matrix]
            /\ UNCHANGED <<work, row_i>>
       ELSE /\ pc' = "dup"
            /\ work' = EnforceStart(args.matrix, args.n)
            /\ row_i' = 1
            /\ UNCHANGED ret
    /\ UNCHANGED <<genVars, args, todo, attempts>>

\* lines 244-313: one iteration
BreakRow ==
    /\ pc = "dup"
    /\ row_i <= Len(work.matrix)
    /\ work' = BreakDuplicateRow(work, row_i)
    /\ attempts' = IF Count(work.seen, work.matrix[row_i]) <= 1 THEN attempts
                   ELSE LoopAttempts(work, work.matrix[row_i])
    /\ row_i' = row_i + 1
    /\ UNCHANGED <<pc, genVars, args, ret, todo>>

\* lines 316-320
ZeroBegin ==
    /\ pc = "dup"
    /\ row_i > Len(work.matrix)
    /\ work' = ZeroStart(work, args.n)
    /\ todo' = ZeroCols(ColSums(work.matrix, args.n))
    /\ pc' = "zero"
    /\ UNCHANGED <<genVars, args, ret, row_i, attempts>>

\* lines 322-388: one iteration
FixColumn ==
    /\ pc = "zero"
    /\ Len(todo) > 0
    /\ work' = FixZeroColumn(work, Head(todo))
    /\ todo' = Tail(todo)
    /\ UNCHANGED <<pc, genVars, args, ret, row_i, attempts>>

\* line 390
EnforceReturn ==
    /\ pc = "zero"
    /\ Len(todo) = 0
    /\ ret' = [kind |-> "value", value |-> work.matrix]
    /\ pc' = "ret_enforce"
    /\ UNCHANGED <<genVars, args, work, todo, row_i, attempts>>

NextEnforce ==
    \/ EnforceBegin
    \/ BreakRow
    \/ ZeroBegin
    \/ FixColumn
    \/ EnforceReturn

SpecEnforce == InitEnforce /\ [][NextEnforce]_vars

(***************************************************************************)
(* choose_m_n called on its own, for every delta, seed and state of the    *)
(* `random` generator within the bounds.                                   *)
(***************************************************************************)
MaxChooseDelta == 12     \* deltas -1..MaxChooseDelta are passed to choose_m_n
MaxChooseEntropy == 255  \* `random` is in a state of 0..MaxChooseEntropy before

InitChoose ==
    /\ NoCall /\ NoWork
    /\ pc = "call_choose"
    /\ ret = NoResult
    /\ npRng = 0
    /\ pyRng \in 0..MaxChooseEntropy
    /\ \E d \in (0 - 1)..MaxChooseDelta, sd \in Seeds :
         args = [delta |-> d, seed |-> sd]

\* chooser.py lines 34-50
ApplyChoose ==
    /\ pc = "call_choose"
    /\ pc' = "ret_choose"
    /\ IF args.delta <= 0
       THEN /\ ret' = [kind |-> "ValueError"]
            /\ pyRng' = pyRng
       ELSE LET c == ChooseMN(args.delta, args.seed, pyRng)
            IN  /\ ret' = [kind |-> "value", m |-> c.m, n |-> c.n]
                /\ pyRng' = c.py
    /\ UNCHANGED <<calls, callVars, localVars, result, npRng, history,
                   rng_use, args, work, todo, row_i, attempts>>

NextChoose == ApplyChoose

SpecChoose == InitChoose /\ [][NextChoose]_vars

(***************************************************************************)
(* _calculate_baseline called on its own, for every matrix within the      *)
(* bounds.                                                                 *)
(***************************************************************************)
InitBaseline ==
    /\ NoCall /\ NoWork /\ NoGenerators
    /\ pc = "call_baseline"
    /\ ret = NoResult
    /\ \E shape \in Shapes :
         \E mat \in MatricesOf(shape[1], shape[2], MaxMass) :
           args = [matrix |-> mat, n |-> shape[2]]

\* lines 203-204
ApplyBaseline ==
    /\ pc = "call_baseline"
    /\ pc' = "ret_baseline"
    /\ ret' = [kind |-> "value", value |-> CalculateBaseline(args.matrix)]
    /\ UNCHANGED <<genVars, args, work, todo, row_i, attempts>>

NextBaseline == ApplyBaseline

SpecBaseline == InitBaseline /\ [][NextBaseline]_vars

(***************************************************************************)
(* One call of generate_random_instance and one call of choose_m_n on its  *)
(* own, in either order, on the same `random` generator.                   *)
(***************************************************************************)
\* choose_m_n(d, sd) called and returned, chooser.py lines 34-50
ChooseAlone(d, sd) ==
    /\ pc \in {"idle", "done"}
    /\ ret = NoResult
    /\ args' = [delta |-> d, seed |-> sd]
    /\ IF d <= 0
       THEN /\ ret' = [kind |-> "ValueError"]
            /\ pyRng' = pyRng
       ELSE LET c == ChooseMN(d, sd, pyRng)
            IN  /\ ret' = [kind |-> "value", m |-> c.m, n |-> c.n]
                /\ pyRng' = c.py
    /\ UNCHANGED <<pc, calls, callVars, localVars, result, npRng, history,
                   rng_use, work, todo, row_i, attempts>>

CallChoose == \E d \in Deltas, sd \in Seeds : ChooseAlone(d, sd)

NextPair == Call \/ Steps \/ CallChoose

SpecPair == Init /\ [][NextPair]_vars

(***************************************************************************)
(* Properties of a matrix.                                                 *)
(***************************************************************************)
RowsDistinct(mat) ==
    \A a, b \in 1..Len(mat) : a # b => mat[a] # mat[b]

NoZeroColumn(mat, n_) ==
    \A c \in 1..n_ : \E r \in 1..Len(mat) : mat[r][c] # 0

RowsWithSum(n_, deg) == {v \in [1..n_ -> 0..deg] : SeqSum(v) = deg}

\* some matrix that begins with the rows chosen and goes on with rows of the
\* sums given has pairwise distinct rows and no all-zero column
RECURSIVE CanComplete(_, _, _)
CanComplete(sums, n_, chosen) ==
    IF Len(chosen) = Len(sums) THEN NoZeroColumn(chosen, n_)
    ELSE \E r \in RowsWithSum(n_, sums[Len(chosen) + 1]) :
            /\ \A k \in 1..Len(chosen) : chosen[k] # r
            /\ CanComplete(sums, n_, Append(chosen, r))

Achievable(mat, n_) == CanComplete(RowDegrees(mat), n_, << >>)

(***************************************************************************)
(* Claims about generate_random_instance (Spec, SpecSeq).                  *)
(***************************************************************************)
Returned == pc = "done" /\ result.kind = "instance"

\* C1: the instance a call returns has baseline == delta
BaselineEqualsDelta ==
    Returned => result.baseline = delta

\* C2: two calls that returned, made with the same delta, the same seed
\* (not None) and the same coefficient range, returned the same m, n,
\* matrix, coefficients and baseline, whatever calls came before or between
SameSeedSameInstance ==
    \A a, b \in 1..Len(history) :
        (/\ history[a].seed # None
         /\ history[a].seed = history[b].seed
         /\ history[a].coeff_range = history[b].coeff_range
         /\ history[a].instance.delta = history[b].instance.delta)
            => history[a].instance = history[b].instance

\* a seeded call, then a call with another seed, then the first call again
RepeatedAfterOtherCall ==
    /\ Len(history) = 3
    /\ history[1].seed # None
    /\ history[3].seed = history[1].seed
    /\ history[3].coeff_range = history[1].coeff_range
    /\ history[3].instance.delta = history[1].instance.delta
    /\ history[2].seed # history[1].seed
    /\ history[2].instance # history[1].instance

\* C4: the matrix of a returned instance is m x n, has no negative entry
\* and no row whose sum is below 1
MatrixRowsPositive ==
    Returned =>
        /\ Len(result.matrix) = result.m
        /\ \A r \in 1..Len(result.matrix) :
              /\ Len(result.matrix[r]) = result.n
              /\ \A c \in 1..Len(result.matrix[r]) : result.matrix[r][c] >= 0
              /\ SeqSum(result.matrix[r]) >= 1

\* C8: a returned instance has m coefficients, each nonzero and within
\* [lo, hi] (coefficients are held as multiples of 1 / CoefSteps)
CoefficientsNonzeroInRange ==
    Returned =>
        /\ Len(result.coefficients) = result.m
        /\ \A k \in 1..Len(result.coefficients) :
              /\ result.coefficients[k] # 0
              /\ result.coefficients[k] >= coeff_range[1] * CoefSteps
              /\ result.coefficients[k] <= coeff_range[2] * CoefSteps

\* an instance of several monomials drawn from a range that contains zero
CoefficientsDrawnAroundZero ==
    /\ Returned
    /\ result.m >= 2
    /\ coeff_range[1] <= 0 /\ coeff_range[2] >= 0

\* a range lo <= hi holds a nonzero value unless lo = hi = 0
HoldsNonzero(r) == r[1] # 0 \/ r[2] # 0

RowTotalsPositiveExact ==
    (pc = "ret_rows" /\ args.target_sum >= args.m) =>
        /\ ret.kind = "value"
        /\ Len(ret.value) = args.m
        /\ \A k \in 1..Len(ret.value) : ret.value[k] >= 1
        /\ SeqSum(ret.value) = args.target_sum

\* C6: target_sum < m raises ValueError, target_sum = m returns m ones, and
\* neither draws from the random source
RowTotalsEdgeCases ==
    pc = "ret_rows" =>
        /\ args.target_sum < args.m
              => (ret.kind = "ValueError" /\ ret.draws = 0)
        /\ args.target_sum = args.m
              => (/\ ret.kind = "value"
                  /\ ret.value = [k \in 1..args.m |-> 1]
                  /\ ret.draws = 0)

\* both edge cases exist: here the one that returns
RowTotalsAllOnes ==
    /\ pc = "ret_rows"
    /\ args.m >= 2
    /\ args.target_sum = args.m
    /\ ret.kind = "value"

(***************************************************************************)
(* Claims about _distribute_exponents (SpecDist).                          *)
(***************************************************************************)
\* C7: for total_degree >= 0 the vector returned has n_variables entries,
\* none negative, that sum to total_degree; it is the zero vector for
\* total_degree 0 and [total_degree] for one variable
ExponentsExact ==
    pc = "ret_dist" =>
        /\ Len(ret.value) = args.n_variables
        /\ \A k \in 1..Len(ret.value) : ret.value[k] >= 0
        /\ SeqSum(ret.value) = args.total_degree
        /\ args.total_degree = 0
              => ret.value = [k \in 1..args.n_variables |-> 0]
        /\ args.n_variables = 1 => ret.value = <<args.total_degree>>

\* the rounded vector overshot and an index fell on a zero entry, so that a
\* positive entry was picked instead
ExponentsFallbackTaken ==
    /\ pc = "ret_dist"
    /\ ExpDiff(args.total_degree, args.gam) < 0
    /\ ret.used > 0

(***************************************************************************)
(* Claims about _enforce_matrix_constraints (SpecEnforce).                 *)
(***************************************************************************)
\* C3: the matrix returned has the shape of the input and, row by row, the
\* sum of the input's row; so its baseline is the input's
EnforceKeepsRowSums ==
    pc = "ret_enforce" =>
        /\ Len(ret.value) = Len(args.matrix)
        /\ \A r \in 1..Len(ret.value) :
              /\ Len(ret.value[r]) = args.n
              /\ SeqSum(ret.value[r]) = SeqSum(args.matrix[r])
        /\ CalculateBaseline(ret.value) = CalculateBaseline(args.matrix)

\* a repair that changed rows in both passes
EnforceMovedUnits ==
    /\ pc = "ret_enforce"
    /\ ~RowsDistinct(args.matrix)
    /\ ~NoZeroColumn(args.matrix, args.n)
    /\ ret.value # args.matrix
    /\ CalculateBaseline(ret.value) > 0

\* C10: when distinct rows and covered columns are achievable for the row
\* sums of the input, the matrix returned has no two identical rows
EnforceLeavesNoDuplicate ==
    (pc = "ret_enforce" /\ Achievable(args.matrix, args.n))
        => RowsDistinct(ret.value)

\* C11: when distinct rows and covered columns are achievable for the row
\* sums of the input, the matrix returned has no column that is entirely
\* zero, the columns a zero-column fix took its unit from included
EnforceLeavesNoZeroColumn ==
    (pc = "ret_enforce" /\ Achievable(args.matrix, args.n))
        => NoZeroColumn(ret.value, args.n)


\* the loop iterations the function still has before it, at most: the rows
\* not yet looked at, then the zero columns not yet handled
EnforceRank ==
    CASE pc = "call_enforce" -> Len(args.matrix) + args.n + 3
      [] pc = "dup" -> (Len(work.matrix) + 1 - row_i) + args.n + 2
      [] pc = "zero" -> Len(todo) + 1
      [] OTHER -> 0

\* the function is at a place from which its next step can be taken: the
\* guards of EnforceBegin, BreakRow, ZeroBegin, FixColumn and EnforceReturn
EnforceCanStep ==
    \/ pc = "call_enforce"
    \/ pc = "dup" /\ row_i \in 1..(Len(work.matrix) + 1)
    \/ pc = "zero" /\ Len(todo) \in 0..args.n

\* C16: on every matrix the function comes to its return and returns a
\* matrix, whether or not the duplicate rows and zero columns could be
\* removed: until it has returned a step can be taken, every step brings
\* the count of iterations left down, and what it returns is a value,
\* never an error; the first search loop of a non-unique row is left after
\* at most 100 attempts
EnforceTerminates ==
    /\ [][EnforceRank' < EnforceRank /\ EnforceRank' >= 0]_vars
    /\ [](pc # "ret_enforce" => EnforceCanStep)
    /\ [](pc = "ret_enforce" => (ret.kind = "value" /\ EnforceRank = 0))
    /\ [](attempts >= 0 /\ attempts <= 100)

\* all 100 attempts were made for a row and the matrix returned still has
\* two identical rows
EnforceGaveUp ==
    /\ pc = "ret_enforce"
    /\ attempts = 100
    /\ ~RowsDistinct(ret.value)


\* the patterns of the rows of a matrix
Patterns(mat) == {mat[r] : r \in 1..Len(mat)}

\* the rows a single unit taken from a positive entry of row and put into
\* another column can give
SingleTransfers(row) ==
    {[row EXCEPT ![p] = @ - 1, ![q] = @ + 1] :
        <<p, q>> \in {pq \in (DOMAIN row) \X (DOMAIN row) :
                          pq[1] # pq[2] /\ row[pq[1]] > 0}}

\* C17: a step of the duplicate-breaking pass changes the row it looks at
\* and no other; a row it changes had a pattern that occurred more than
\* once and gets, by one single-unit transfer, a pattern that no row had
\* just before; a non-unique row it leaves as it was has no single-unit
\* transfer to a pattern that no row has
DuplicatePassTransfers ==
    [][(pc = "dup" /\ pc' = "dup") =>
          LET mat == work.matrix
              old == mat[row_i]
              new == work'.matrix[row_i]
              times == Cardinality({r \in 1..Len(mat) : mat[r] = old})
          IN  /\ \A r \in 1..Len(mat) : r # row_i => work'.matrix[r] = mat[r]
              /\ new # old => /\ times > 1
                              /\ new \notin Patterns(mat)
                              /\ new \in SingleTransfers(old)
              /\ (new = old /\ times > 1)
                    => SingleTransfers(old) \subseteq Patterns(mat)]_vars

\* a non-unique row that has units to move was looked at and left as it was
DuplicateRowKept ==
    /\ pc = "dup"
    /\ row_i > 1
    /\ work.matrix[row_i - 1] = args.matrix[row_i - 1]
    /\ \E r \in 1..Len(work.matrix) :
          r # row_i - 1 /\ work.matrix[r] = work.matrix[row_i - 1]
    /\ SingleTransfers(work.matrix[row_i - 1]) # {}


\* the rows a single unit taken from a positive entry of row, outside
\* column j, and put into column j can give
TransfersInto(row, j) ==
    {[row EXCEPT ![p] = @ - 1, ![j] = @ + 1] :
        p \in {c \in DOMAIN row : c # j /\ row[c] > 0}}

\* C18: the zero-column pass runs when the duplicate-breaking pass has
\* looked at every row; whenever some row has a single-unit transfer into
\* the column being fixed that gives a pattern no row has, the step makes
\* such a transfer, in one row, and so does not make a row equal to another
ZeroPassPrefersFresh ==
    /\ [](pc = "zero" => row_i = Len(work.matrix) + 1)
    /\ [][(pc = "zero" /\ pc' = "zero") =>
            LET mat == work.matrix
                j == Head(todo)
                fresh == {r \in 1..Len(mat) :
                             TransfersInto(mat[r], j) \ Patterns(mat) # {}}
            IN  fresh # {} =>
                   \E r \in fresh :
                      /\ work'.matrix[r] \in TransfersInto(mat[r], j) \ Patterns(mat)
                      /\ \A k \in 1..Len(mat) :
                            k # r => work'.matrix[k] = mat[k]]_vars

\* a column that was all zero was filled where several rows had a unit to
\* give
ZeroColumnFilled ==
    /\ pc = "ret_enforce"
    /\ Len(args.matrix) >= 2
    /\ RowsDistinct(args.matrix)
    /\ \A r \in 1..Len(args.matrix) : SumTo(args.matrix[r], args.n) >= 1
    /\ ~NoZeroColumn(args.matrix, args.n)
    /\ ret.value # args.matrix

(***************************************************************************)
(* Further claims about generate_random_instance (Spec).                   *)
(***************************************************************************)
\* C12: a call whose final matrix has a baseline other than delta ends in an
\* error when it leaves the coefficient loop; it returns no instance
MismatchAborts ==
    [][(pc = "coeffs" /\ pc' # "coeffs"
        /\ CalculateBaseline(exponent_matrix) # delta)
          => (pc' = "error" /\ result'.kind # "instance")]_vars



\* the places of an event in the running call's record
EventsAt(e) == {k \in 1..Len(rng_use.events) : rng_use.events[k] = e}

\* the generator was seeded before each of its draws, and once at most
SeededOnceBeforeDraws(seeding, draw) ==
    /\ Cardinality(EventsAt(seeding)) <= 1
    /\ \A d \in EventsAt(draw) : \E s \in EventsAt(seeding) : s < d

\* C19: in a call with a seed each of the two generators is seeded before
\* its first draw and is not seeded a second time; when the call returns
\* each has been seeded exactly once
SeededExactlyOnce ==
    (calls > 0 /\ seed # None) =>
        /\ SeededOnceBeforeDraws("seed_py", "draw_py")
        /\ SeededOnceBeforeDraws("seed_np", "draw_np")
        /\ Returned => /\ Cardinality(EventsAt("seed_py")) = 1
                       /\ Cardinality(EventsAt("seed_np")) = 1

\* C20: a call with a seed leaves the two process-wide generators in the
\* states they had when it was entered, so that a later call without a
\* seed draws what it would have drawn had the seeded call not been made
SeededCallLeavesGenerators ==
    (Returned /\ seed # None) =>
        /\ pyRng = rng_use.py
        /\ npRng = rng_use.np


\* C21: the m and n of an instance returned for a seed are the pair that
\* choose_m_n returns for the same delta and seed when called on its own,
\* before or after, whatever state the generator was in before either call
SizesAsChosenAlone ==
    (/\ Returned /\ seed # None
     /\ ret.kind = "value"
     /\ args.delta = delta /\ args.seed = seed)
        => (result.m = ret.m /\ result.n = ret.n)

\* both calls were made with one delta and seed, on a delta that leaves a
\* choice of sizes
SizesChosenTwice ==
    /\ Returned /\ seed # None
    /\ ret.kind = "value"
    /\ args.delta = delta /\ args.seed = seed
    /\ delta >= 3
    /\ result.m >= 2

ScaledM(d, m_) ==
    \/ m_ = 1 /\ 9 * d < 100
    \/ m_ >= 1 /\ 4 * m_ * m_ <= 9 * d /\ 25 * (m_ + 1) * (m_ + 1) > 9 * d

\* n_ = max(2, floor(sqrt(d) / b)) for some b in [0.2, 0.8], in integers:
\* the interval [sqrt(d) / 0.8, sqrt(d) / 0.2] = [5 sqrt(d) / 4, 5 sqrt(d)]
\* holds a value below 3 (n_ = 2) or a value of [n_, n_ + 1)
ScaledN(d, n_) ==
    \/ n_ = 2 /\ 25 * d < 144
    \/ n_ >= 2 /\ n_ * n_ <= 25 * d /\ 16 * (n_ + 1) * (n_ + 1) > 25 * d

\* C14: for delta > 0 the pair returned is m = max(1, floor(sqrt(delta) * a))
\* and n = max(2, floor(sqrt(delta) / b)) for some scale factors a in
\* [0.6, 1.5] and b in [0.2, 0.8]
SizesFromScaleFactors ==
    (pc = "ret_choose" /\ args.delta > 0) =>
        /\ ScaledM(args.delta, ret.m)
        /\ ScaledN(args.delta, ret.n)


(***************************************************************************)
(* Claims about _calculate_baseline (SpecBaseline).                        *)
(***************************************************************************)
\* C15: the baseline returned is the sum over rows of max(0, rowSum - 1),
\* that is, every unit of the matrix but one per row that has any; it is 0
\* for a matrix without rows and for rows that all sum to 1, and 3 for the
\* row sums [3, 2, 1]
BaselineCountsSurplus ==
    pc = "ret_baseline" =>
        LET mat == args.matrix
            sums == [r \in 1..Len(mat) |-> SumTo(mat[r], args.n)]
            nonzero == {r \in 1..Len(mat) : \E c \in 1..args.n : mat[r][c] > 0}
        IN  /\ ret.value = SumTo(sums, Len(mat)) - Cardinality(nonzero)
            /\ Len(mat) = 0 => ret.value = 0
            /\ (\A r \in 1..Len(mat) : sums[r] = 1) => ret.value = 0
            /\ sums = <<3, 2, 1>> => ret.value = 3

\* the matrix of the scenario: three columns, row sums 3, 2 and 1
BaselineOfThreeTwoOne ==
    /\ pc = "ret_baseline"
    /\ args.matrix = <<<<2, 1, 0>>, <<1, 1, 0>>, <<0, 1, 0>>>>
    /\ ret.value = 3

=============================================================================
